---- MODULE Spec2Model ----
(***************************************************************************)
(* A model of train_model_GNN.py: the literal parser and node-feature      *)
(* encoder, the best-pair resolution, the graph builder with its           *)
(* symmetrisation step, the ClauseResolutionDataset constructor and its    *)
(* get(), and the evaluate() loop.                                         *)
(*                                                                         *)
(* Python strings are sequences of one-character strings; a Python list is *)
(* a sequence and Python's 0-based index k is position k+1 of it; a dict   *)
(* is a function on its key set.                                           *)
(***************************************************************************)
EXTENDS Integers, Sequences, FiniteSets, TLC

VARIABLES
    pc,                 \* which routine is running and where it stands
    literal,            \* embed_literal: the literal argument
    max_args,           \* embed_literal / build_graph / Dataset: max_args
    feat,               \* embed_literal: the returned vector
    example,            \* build_graph_from_example: the example argument
    best_pair,          \* build_graph_from_example: the local best_pair
    graph,              \* build_graph_from_example: the returned value
    examples,           \* ClauseResolutionDataset.examples
    predicate_to_idx,   \* ClauseResolutionDataset.predicate_to_idx
    _cache_enabled,     \* ClauseResolutionDataset._cache_enabled
    _cache,             \* ClauseResolutionDataset._cache
    requested,          \* history: the indices get() has been called with
    idx,                \* get: the idx argument of the last call
    passed,             \* get: the example last handed to the graph builder
    result,             \* get: what the last call returned
    loader,             \* evaluate: how many batches the loader still yields
    batch,              \* evaluate: the batch of the current iteration
    correct,            \* evaluate: correct
    total,              \* evaluate: total
    acc                 \* evaluate: the returned accuracy

vars == <<pc, literal, max_args, feat, example, best_pair, graph, examples,
          predicate_to_idx, _cache_enabled, _cache, requested, idx, passed,
          result, loader, batch, correct, total, acc>>

embedVars   == <<literal, max_args, feat>>
graphVars   == <<example, best_pair, graph>>
datasetVars == <<examples, predicate_to_idx, _cache_enabled, _cache,
                 requested, idx, passed, result>>
cacheVars   == <<examples, _cache_enabled, _cache, requested, idx, passed, result>>
evalVars    == <<loader, batch, correct, total, acc>>

-----------------------------------------------------------------------------
(* Bounds of the model. *)
MaxLitLen     == 5   \* longest literal string the encoder is run on
MaxArgs       == 3   \* largest max_args the encoder is run with
MaxPairs      == 3   \* longest resolvable_pairs list
MaxExamples   == 3   \* most examples loaded into one dataset
MaxBatches    == 3   \* most batches one loader yields
MaxBatchEdges == 2   \* most labeled edges in one batch

DefaultMaxArgs == 3  \* max_args: int = 3

(* An optional value (a JSON null, a missing key, a variable not yet set) is *)
(* a sequence of length at most one: None is << >>, the value v is << v >>. *)
None    == << >>
Some(v) == << v >>

Raised     == [kind |-> "raised"]   \* the call ended in an exception
NoneResult == [kind |-> "none"]     \* the call returned None
NotCalled  == [kind |-> "idle"]     \* the routine has not returned yet

-----------------------------------------------------------------------------
(* Python helpers. *)

\* Python's min / max
Min(a, b) == IF a <= b THEN a ELSE b
Max(a, b) == IF a >= b THEN a ELSE b

\* s[a:b] for 0 <= a, 0 <= b (already normalised bounds)
Slice(s, a, b) == IF a >= Min(b, Len(s)) THEN << >> ELSE SubSeq(s, a + 1, Min(b, Len(s)))

\* s[:k], k possibly negative (then it counts from the end)
PrefixSlice(s, k) == IF k >= 0 THEN Slice(s, 0, k) ELSE Slice(s, 0, Max(Len(s) + k, 0))

\* s[a:-1] for a >= 0
SliceToLast(s, a) == Slice(s, a, Max(Len(s) - 1, 0))

Whitespace == {" "}
Negations  == {"~", "¬"}
Upper      == {"P", "Q", "X"}                         \* str.isupper() on one character
IdentChars == {"P", "Q", "X", "a", "b", "f"}          \* [A-Za-z0-9_]
Alphabet   == {"~", "¬", "P", "a", "(", ")", ",", " "}     \* characters of the literals the encoder is run on

\* ord(c)
Ord(c) == CASE c = " " -> 32 [] c = "(" -> 40 [] c = ")" -> 41 [] c = "," -> 44
            [] c = "P" -> 80 [] c = "Q" -> 81 [] c = "X" -> 88
            [] c = "a" -> 97 [] c = "b" -> 98 [] c = "f" -> 102
            [] c = "~" -> 126 [] c = "¬" -> 172

RECURSIVE LStrip(_)
LStrip(s) == IF s # << >> /\ Head(s) \in Whitespace THEN LStrip(Tail(s)) ELSE s

RECURSIVE RStrip(_)
RStrip(s) == IF s # << >> /\ s[Len(s)] \in Whitespace
             THEN RStrip(SubSeq(s, 1, Len(s) - 1)) ELSE s

\* str.strip()
Strip(s) == RStrip(LStrip(s))

\* 0-based position of the first c in s, or Len(s) when there is none
RECURSIVE Find(_, _)
Find(s, c) == IF s = << >> \/ Head(s) = c THEN 0 ELSE 1 + Find(Tail(s), c)

\* s.split(c): the pieces between the occurrences of c
RECURSIVE Split(_, _)
Split(s, c) == LET k == Find(s, c)
               IN  IF k = Len(s) THEN << s >>
                   ELSE << Slice(s, 0, k) >> \o Split(Slice(s, k + 1, Len(s)), c)

\* [f(x) for x in s] with f = strip
RECURSIVE StripAll(_)
StripAll(ss) == IF ss = << >> THEN << >> ELSE << Strip(Head(ss)) >> \o StripAll(Tail(ss))

-----------------------------------------------------------------------------
(* 1) Literal helpers. *)

parse_literal(lit) ==
    LET core0  == Strip(lit)
        neg    == core0 # << >> /\ Head(core0) \in Negations
        sign   == IF neg THEN -1 ELSE 1
        core   == IF neg THEN Strip(Tail(core0)) ELSE core0
        pred   == Slice(core, 0, Find(core, "("))
        inside == Strip(SliceToLast(core, Len(pred) + 1))
        args   == IF inside = << >> THEN << >> ELSE StripAll(Split(inside, ","))
    IN  [sign |-> sign, pred |-> pred, args |-> args]

\* the type code of one argument
ArgType(arg) ==
    IF Find(arg, "(") < Len(arg) /\ arg # << >> /\ arg[Len(arg)] = ")" THEN 2
    ELSE IF arg # << >> /\ arg[1] \in Upper THEN 0
    ELSE 1

\* [-1] * n
Pad(n) == [k \in 1..Max(n, 0) |-> -1]

\* dict.get(key, default)
DictGet(d, key, default) == IF key \in DOMAIN d THEN d[key] ELSE default

\* a plausible slip: all the arguments are encoded, not the first max_args
embed_literal_untruncated(lit, p2i, maxargs) ==
    LET p         == parse_literal(lit)
        arg_types == [k \in 1..Len(p.args) |-> ArgType(p.args[k])]
    IN  << IF p.sign > 0 THEN 0 ELSE 1, DictGet(p2i, p.pred, 0) >>
        \o arg_types \o Pad(maxargs - Len(arg_types))

embed_literal(lit, p2i, maxargs) ==
    LET p         == parse_literal(lit)
        taken     == PrefixSlice(p.args, maxargs)
        arg_types == [k \in 1..Len(taken) |-> ArgType(taken[k])]
    IN  << IF p.sign > 0 THEN 0 ELSE 1, DictGet(p2i, p.pred, 0) >>
        \o arg_types \o Pad(maxargs - Len(arg_types))

-----------------------------------------------------------------------------
(* Sequences over a set, up to a length. *)
SeqsUpTo(S, n) == UNION {[1..k -> S] : k \in 0..n}

EmbedVocabulary == (<< "P" >> :> 1) @@ (<< "a" >> :> 2)

-----------------------------------------------------------------------------
(* The values of the variables of a routine that is not running. *)
EmbedIdle   == literal = << >> /\ feat = None
GraphIdle   == example = None /\ best_pair = None /\ graph = NotCalled
DatasetIdle == /\ examples = << >> /\ _cache_enabled = FALSE /\ _cache = << >>
               /\ requested = {} /\ idx = None /\ passed = None /\ result = NotCalled
EvalIdle    == loader = 0 /\ batch = << >> /\ correct = 0 /\ total = 0 /\ acc = NotCalled

-----------------------------------------------------------------------------
(* The encoder run on one literal. *)
InitEmbed ==
    /\ pc = "embed"
    /\ literal \in SeqsUpTo(Alphabet, MaxLitLen)
    /\ max_args \in 0..MaxArgs
    /\ predicate_to_idx = EmbedVocabulary
    /\ feat = None
    /\ GraphIdle /\ DatasetIdle /\ EvalIdle

Embed ==
    /\ pc = "embed"
    /\ feat' = Some(embed_literal(literal, predicate_to_idx, max_args))
    /\ pc' = "embedded"
    /\ UNCHANGED <<literal, max_args, graphVars, datasetVars, evalVars>>

NextEmbed == Embed

SpecEmbed == InitEmbed /\ [][NextEmbed]_vars

-----------------------------------------------------------------------------
(* 2) Core graph builder. *)

(* An example is a record with the keys clauses, resolvable_pairs,         *)
(* best_pair and best_pair_index. A clause is <<clause_id, clause_type,    *)
(* literals>>. A pair is a record of two integer clause indices and two    *)
(* optional literal indices. best_pair is an optional pair and             *)
(* best_pair_index an optional integer: a missing key and a null read the  *)
(* same in _extract_best_pair ("in ... and ... is not None", .get).        *)

_extract_best_pair_index_first(ex) ==
    IF ex.best_pair_index # None
       /\ 0 <= ex.best_pair_index[1]
       /\ ex.best_pair_index[1] < Len(ex.resolvable_pairs)
    THEN Some(ex.resolvable_pairs[ex.best_pair_index[1] + 1])
    ELSE ex.best_pair

_extract_best_pair(ex) ==
    IF ex.best_pair # None THEN ex.best_pair
    ELSE IF ex.best_pair_index # None
            /\ 0 <= ex.best_pair_index[1]
            /\ ex.best_pair_index[1] < Len(ex.resolvable_pairs)
         THEN Some(ex.resolvable_pairs[ex.best_pair_index[1] + 1])
         ELSE None

\* the keys (ci, li) of node_map
NodeKeys(clauses) ==
    UNION { { <<ci, li>> : li \in 0..(Len(clauses[ci + 1][3]) - 1) } :
            ci \in 0..(Len(clauses) - 1) }

\* g_idx when the loops reach clause ci: the literals of the clauses before it
RECURSIVE LiteralsBefore(_, _)
LiteralsBefore(clauses, ci) ==
    IF ci = 0 THEN 0
    ELSE LiteralsBefore(clauses, ci - 1) + Len(clauses[ci][3])

\* a plausible slip: g_idx advanced once per clause
node_map_per_clause(clauses) ==
    [k \in NodeKeys(clauses) |-> k[1] + k[2]]

\* node_map after the two loops
node_map(clauses) ==
    [k \in NodeKeys(clauses) |-> LiteralsBefore(clauses, k[1]) + k[2]]

\* node_features after the two loops
RECURSIVE node_features(_, _, _)
node_features(clauses, p2i, maxargs) ==
    IF clauses = << >> THEN << >>
    ELSE LET lits == Head(clauses)[3]
         IN  [li \in 1..Len(lits) |-> embed_literal(lits[li], p2i, maxargs)]
             \o node_features(Tail(clauses), p2i, maxargs)

\* the pair passes both "skip malformed pairs" tests
IsValidPair(pair, nm) ==
    /\ pair.literalA_index # None
    /\ pair.literalB_index # None
    /\ <<pair.clauseA_index, pair.literalA_index[1]>> \in DOMAIN nm
    /\ <<pair.clauseB_index, pair.literalB_index[1]>> \in DOMAIN nm

\* is_best for a pair that passed the tests
is_best(pair, best) ==
    /\ best # None
    /\ best[1].literalA_index # None
    /\ best[1].literalB_index # None
    /\ pair.clauseA_index = best[1].clauseA_index
    /\ pair.literalA_index = best[1].literalA_index
    /\ pair.clauseB_index = best[1].clauseB_index
    /\ pair.literalB_index = best[1].literalB_index

\* edge_src/edge_dst (as a list of <<src, dst>>) after the loop over the pairs
RECURSIVE forward_edges(_, _)
forward_edges(pairs, nm) ==
    IF pairs = << >> THEN << >>
    ELSE LET pair == Head(pairs)
         IN  (IF IsValidPair(pair, nm)
              THEN << << nm[<<pair.clauseA_index, pair.literalA_index[1]>>],
                         nm[<<pair.clauseB_index, pair.literalB_index[1]>>] >> >>
              ELSE << >>)
             \o forward_edges(Tail(pairs), nm)

\* labels after the loop over the pairs
RECURSIVE forward_labels(_, _, _)
forward_labels(pairs, nm, best) ==
    IF pairs = << >> THEN << >>
    ELSE LET pair == Head(pairs)
         IN  (IF IsValidPair(pair, nm)
              THEN << IF is_best(pair, best) THEN 1 ELSE 0 >>
              ELSE << >>)
             \o forward_labels(Tail(pairs), nm, best)

\* (u, v) comes before (w, z) in the order coalesce sorts the columns by
EdgeLess(e, f) == e[1] < f[1] \/ (e[1] = f[1] /\ e[2] < f[2])

RECURSIVE SortEdges(_)
SortEdges(S) ==
    IF S = {} THEN << >>
    ELSE LET m == CHOOSE e \in S : \A f \in S \ {e} : EdgeLess(e, f)
         IN  << m >> \o SortEdges(S \ {m})

(* torch_geometric.utils.to_undirected: the columns and their reverses,    *)
(* coalesced (sorted by row, then column, duplicates removed).             *)
to_undirected(edges) ==
    SortEdges({edges[k] : k \in 1..Len(edges)}
              \cup {<<edges[k][2], edges[k][1]>> : k \in 1..Len(edges)})

build_graph_from_example(ex, p2i, maxargs) ==
    LET clauses    == ex.clauses
        best       == _extract_best_pair(ex)
        nm         == node_map(clauses)
        x          == node_features(clauses, p2i, maxargs)
        fwd        == forward_edges(ex.resolvable_pairs, nm)
        labels     == forward_labels(ex.resolvable_pairs, nm, best)
        num_fwd    == Len(fwd)
        edge_index == to_undirected(fwd)
        added      == Len(edge_index) - num_fwd
        y          == labels \o PrefixSlice(labels, added)
    IN  IF x = << >> THEN Raised              \* torch.stack of an empty list
        ELSE IF num_fwd = 0 THEN NoneResult
        ELSE [kind |-> "graph", x |-> x, edge_index |-> edge_index, y |-> y]

-----------------------------------------------------------------------------
(* The examples the graph builder is run on. *)
Lit_PX   == << "P", "(", "X", ")" >>
Lit_nPa  == << "~", "P", "(", "a", ")" >>
Lit_Qfab == << "Q", "(", "f", "(", "a", ")", ",", "b", ")" >>

Clause(k, lits) == << << "c", k >>, "axiom", lits >>

ClausesPool ==
    { << >>,
      << Clause(0, << >>) >>,
      << Clause(0, << Lit_PX >>), Clause(1, << Lit_nPa >>) >>,
      << Clause(0, << Lit_PX, Lit_Qfab >>), Clause(1, << Lit_nPa >>) >>,
      << Clause(0, << Lit_PX, Lit_Qfab >>), Clause(1, << Lit_nPa, Lit_PX >>) >>,
      << Clause(0, << >>), Clause(1, << Lit_Qfab, Lit_nPa >>) >> }

Pair(i, a, j, b) == [clauseA_index |-> i, literalA_index |-> a,
                     clauseB_index |-> j, literalB_index |-> b]

PairPool ==
    { Pair(0, Some(0), 1, Some(0)),
      Pair(1, Some(0), 0, Some(0)),     \* the reverse of the first
      Pair(0, Some(1), 1, Some(0)),
      Pair(0, Some(0), 0, Some(1)),
      Pair(1, Some(0), 1, Some(1)),
      Pair(0, Some(0), 0, Some(0)),     \* a literal paired with itself
      Pair(1, Some(1), 0, Some(0)),
      Pair(0, None, 1, Some(0)),        \* a null literal index
      Pair(0, Some(0), 2, Some(0)) }    \* a clause that does not exist

InlineBestPool == { None, Some(Pair(0, Some(0), 1, Some(0))),
                    Some(Pair(0, Some(1), 1, Some(0))) }

BestIndexPool == { None } \cup { Some(k) : k \in -1..MaxPairs }

ExamplePool ==
    [ clauses          : ClausesPool,
      resolvable_pairs : SeqsUpTo(PairPool, MaxPairs),
      best_pair        : InlineBestPool,
      best_pair_index  : BestIndexPool ]

GraphVocabulary == (<< "P" >> :> 1) @@ (<< "Q" >> :> 2)

-----------------------------------------------------------------------------
(* The graph builder run on one example. *)
InitGraph ==
    /\ pc = "build"
    /\ example \in { Some(ex) : ex \in ExamplePool }
    /\ max_args = DefaultMaxArgs
    /\ predicate_to_idx = GraphVocabulary
    /\ best_pair = None /\ graph = NotCalled
    /\ EmbedIdle /\ DatasetIdle /\ EvalIdle

Build ==
    /\ pc = "build"
    /\ best_pair' = _extract_best_pair(example[1])
    /\ graph' = build_graph_from_example(example[1], predicate_to_idx, max_args)
    /\ pc' = "built"
    /\ UNCHANGED <<example, embedVars, datasetVars, evalVars>>

NextGraph == Build

SpecGraph == InitGraph /\ [][NextGraph]_vars

-----------------------------------------------------------------------------
(* Properties of the graph builder. *)

Built       == pc = "built"
BuiltGraph  == pc = "built" /\ graph.kind = "graph"
Ex          == example[1]
Pairs       == Ex.resolvable_pairs
EdgeCols    == 1..Len(graph.edge_index)

\* the ordinal of literal li of clause ci, counting clause by clause
Ordinal(ci, li) ==
    Cardinality({k \in NodeKeys(Ex.clauses) :
                    k[1] < ci \/ (k[1] = ci /\ k[2] < li)})

\* the pair names two literals that exist
RefersToNodes(pair) ==
    /\ pair.literalA_index # None
    /\ pair.literalB_index # None
    /\ pair.clauseA_index \in 0..(Len(Ex.clauses) - 1)
    /\ pair.clauseB_index \in 0..(Len(Ex.clauses) - 1)
    /\ pair.literalA_index[1] \in 0..(Len(Ex.clauses[pair.clauseA_index + 1][3]) - 1)
    /\ pair.literalB_index[1] \in 0..(Len(Ex.clauses[pair.clauseB_index + 1][3]) - 1)

SrcOf(pair) == Ordinal(pair.clauseA_index, pair.literalA_index[1])
DstOf(pair) == Ordinal(pair.clauseB_index, pair.literalB_index[1])

ValidPositions == {k \in 1..Len(Pairs) : RefersToNodes(Pairs[k])}

\* no pair twice, no pair together with its reverse, no literal paired with itself
PairsAreDistinctEdges ==
    \A k, m \in ValidPositions :
        /\ SrcOf(Pairs[k]) # DstOf(Pairs[k])
        /\ k # m => /\ <<SrcOf(Pairs[k]), DstOf(Pairs[k])>> # <<SrcOf(Pairs[m]), DstOf(Pairs[m])>>
                    /\ <<SrcOf(Pairs[k]), DstOf(Pairs[k])>> # <<DstOf(Pairs[m]), SrcOf(Pairs[m])>>

\* C2: in a returned graph every edge (u,v) with label y[k] has its reverse
\* (v,u) in edge_index with the same label (stated for lists of distinct
\* pairs, where each edge has exactly one reverse).
C2_SymmetricLabels ==
    (BuiltGraph /\ PairsAreDistinctEdges) =>
        \A k \in EdgeCols :
            \E m \in EdgeCols :
                /\ graph.edge_index[m] = <<graph.edge_index[k][2], graph.edge_index[k][1]>>
                /\ graph.y[m] = graph.y[k]

\* C3: when every pair refers to existing nodes and the best pair is one of
\* them, the graph has 2 x (number of pairs) edges and exactly two are
\* labeled 1: the best pair's edge and its mirror (stated for lists of
\* distinct pairs).
C3_TwoBestEdges ==
    (/\ Built
     /\ Ex.clauses # << >>
     /\ ValidPositions = 1..Len(Pairs)
     /\ PairsAreDistinctEdges
     /\ best_pair # None
     /\ \E k \in 1..Len(Pairs) : Pairs[k] = best_pair[1])
    => /\ graph.kind = "graph"
       /\ Len(graph.edge_index) = 2 * Len(Pairs)
       /\ Len(graph.y) = Len(graph.edge_index)
       /\ \A k \in EdgeCols :
            graph.y[k] = IF graph.edge_index[k] \in
                               { <<SrcOf(best_pair[1]), DstOf(best_pair[1])>>,
                                 <<DstOf(best_pair[1]), SrcOf(best_pair[1])>> }
                         THEN 1 ELSE 0

\* C4: when every resolvable pair is malformed the builder returns None and
\* raises nothing, also for an example without clauses or without literals.
C4_UnusableNotRaised ==
    (Built /\ Pairs # << >> /\ ValidPositions = {}) => graph = NoneResult

\* C8: the best pair is the inline best_pair when there is one, else
\* resolvable_pairs[best_pair_index] when the index is non-null and in
\* 0 <= index < len(resolvable_pairs), else absent.
C8_BestPairPrecedence ==
    Built =>
        /\ Ex.best_pair # None => best_pair = Ex.best_pair
        /\ (Ex.best_pair = None /\ Ex.best_pair_index # None) =>
              \A i \in 0..(Len(Pairs) - 1) :
                  Ex.best_pair_index = Some(i) => best_pair = Some(Pairs[i + 1])
        /\ (Ex.best_pair = None
            /\ \A i \in 0..(Len(Pairs) - 1) : Ex.best_pair_index # Some(i))
           => best_pair = None

C8_Witness ==
    /\ Built
    /\ Ex.best_pair # None
    /\ Ex.best_pair_index = Some(1)
    /\ Len(Pairs) = 2
    /\ Pairs[2] # Ex.best_pair[1]
    /\ best_pair = Ex.best_pair

\* C9: nodes are numbered 0..N-1 clause by clause, literal by literal, N the
\* number of literals; the edges are exactly the edges (and reverses) of the
\* pairs whose literal indices are non-null and whose endpoints exist, and
\* removing the other pairs from the example leaves edge_index unchanged.
C9_NodesAndEdges ==
    BuiltGraph =>
        /\ Len(graph.x) = Cardinality(NodeKeys(Ex.clauses))
        /\ \A k \in NodeKeys(Ex.clauses) :
              graph.x[Ordinal(k[1], k[2]) + 1] =
                  embed_literal(Ex.clauses[k[1] + 1][3][k[2] + 1], predicate_to_idx, max_args)
        /\ \A k \in EdgeCols :
              /\ graph.edge_index[k][1] \in 0..(Len(graph.x) - 1)
              /\ graph.edge_index[k][2] \in 0..(Len(graph.x) - 1)
        /\ {graph.edge_index[k] : k \in EdgeCols} =
              {<<SrcOf(Pairs[k]), DstOf(Pairs[k])>> : k \in ValidPositions}
              \cup {<<DstOf(Pairs[k]), SrcOf(Pairs[k])>> : k \in ValidPositions}
        /\ graph.edge_index =
              build_graph_from_example(
                  [Ex EXCEPT !.resolvable_pairs = SelectSeq(Pairs, RefersToNodes)],
                  predicate_to_idx, max_args).edge_index

C9_Witness ==
    /\ BuiltGraph
    /\ Len(graph.x) = 4
    /\ Len(Pairs) = 3
    /\ Cardinality(ValidPositions) = 1
    /\ \E k \in 1..Len(Pairs) : Pairs[k].literalA_index = None
    /\ \E k \in 1..Len(Pairs) : Pairs[k].clauseB_index = 2
    /\ Len(graph.edge_index) = 2

\* C10: in a returned graph y has exactly one entry per column of edge_index,
\* also when the list holds a pair twice, a pair with its reverse, or a pair
\* joining a node to itself.
C10_OneLabelPerEdge ==
    BuiltGraph => Len(graph.y) = Len(graph.edge_index)

-----------------------------------------------------------------------------
(* 3) Dataset. *)

\* the longest prefix of s made of identifier characters
RECURSIVE IdentPrefix(_)
IdentPrefix(s) ==
    IF s # << >> /\ Head(s) \in IdentChars
    THEN << Head(s) >> \o IdentPrefix(Tail(s)) ELSE << >>

\* re.match(r'\s*[~¬]?\s*([A-Za-z0-9_]+)\(', lit): group 1, or None
MatchPredicate(lit) ==
    LET s1 == LStrip(lit)
        s2 == IF s1 # << >> /\ Head(s1) \in Negations THEN Tail(s1) ELSE s1
        s3 == LStrip(s2)
        id == IdentPrefix(s3)
    IN  IF id # << >> /\ Len(id) < Len(s3) /\ s3[Len(id) + 1] = "("
        THEN Some(id) ELSE None

\* the literals of all clauses of all the examples
AllLiterals(exs) ==
    UNION { UNION { { exs[e].clauses[c][3][l] : l \in 1..Len(exs[e].clauses[c][3]) } :
                    c \in 1..Len(exs[e].clauses) } :
            e \in 1..Len(exs) }

\* seen: the predicate names matched in the literals of all the examples
SeenPredicates(exs) ==
    { MatchPredicate(lit)[1] : lit \in { l \in AllLiterals(exs) : MatchPredicate(l) # None } }

\* s < t for Python strings (code point by code point, a prefix first)
RECURSIVE StrLess(_, _)
StrLess(s, t) ==
    IF t = << >> THEN FALSE
    ELSE IF s = << >> THEN TRUE
    ELSE IF Head(s) # Head(t) THEN Ord(Head(s)) < Ord(Head(t))
    ELSE StrLess(Tail(s), Tail(t))

\* sorted(S) for a set of strings
RECURSIVE Sorted(_)
Sorted(S) ==
    IF S = {} THEN << >>
    ELSE LET m == CHOOSE s \in S : \A t \in S \ {s} : StrLess(s, t)
         IN  << m >> \o Sorted(S \ {m})

\* {p: i + 1 for i, p in enumerate(pred_list)}: a later duplicate wins
Enumerate(pred_list) ==
    [ p \in {pred_list[k] : k \in 1..Len(pred_list)} |->
        CHOOSE k \in 1..Len(pred_list) :
            pred_list[k] = p /\ \A m \in (k + 1)..Len(pred_list) : pred_list[m] # p ]

\* the predicate vocabulary the constructor builds
BuildVocabulary(loaded, predicate_list) ==
    IF predicate_list # << >> THEN Enumerate(predicate_list)
    ELSE Enumerate(Sorted(SeenPredicates(loaded)))

\* filtered: the examples with a resolvable best pair
filtered(loaded) ==
    SelectSeq(loaded, LAMBDA ex : _extract_best_pair(ex) # None)

(* self.examples when __init__ returns: "self.examples = filtered" is      *)
(* followed, after the vocabulary is built, by "self.examples = examples". *)
ConstructedExamples(loaded) ==
    LET first == filtered(loaded)
    IN  loaded

\* a plausible slip: the cache entry of another index is returned
get_any_entry(self, i) ==
    IF self._cache_enabled
    THEN IF self._cache = << >>
         THEN LET g == build_graph_from_example(self.examples[i + 1],
                           self.predicate_to_idx, self.max_args)
              IN  [ _cache |-> IF g = Raised THEN self._cache ELSE (i :> g),
                    passed |-> Some(self.examples[i + 1]),
                    result |-> g ]
         ELSE [ _cache |-> self._cache,
                passed |-> None,
                result |-> self._cache[CHOOSE k \in DOMAIN self._cache : TRUE] ]
    ELSE [ _cache |-> self._cache,
           passed |-> Some(self.examples[i + 1]),
           result |-> build_graph_from_example(self.examples[i + 1],
                          self.predicate_to_idx, self.max_args) ]

(* get(idx): the cache after the call, the example handed to the graph     *)
(* builder (None when the cache answered) and what the call returns. An    *)
(* exception in the builder leaves the cache as it was.                    *)
get(self, i) ==
    IF self._cache_enabled
    THEN IF i \notin DOMAIN self._cache
         THEN LET g == build_graph_from_example(self.examples[i + 1],
                           self.predicate_to_idx, self.max_args)
              IN  [ _cache |-> IF g = Raised THEN self._cache
                               ELSE (i :> g) @@ self._cache,
                    passed |-> Some(self.examples[i + 1]),
                    result |-> g ]
         ELSE [ _cache |-> self._cache,
                passed |-> None,
                result |-> self._cache[i] ]
    ELSE [ _cache |-> self._cache,
           passed |-> Some(self.examples[i + 1]),
           result |-> build_graph_from_example(self.examples[i + 1],
                          self.predicate_to_idx, self.max_args) ]

-----------------------------------------------------------------------------
(* The examples a dataset is loaded with. *)
TwoNodes   == << Clause(0, << Lit_PX >>), Clause(1, << Lit_nPa >>) >>
ThreeNodes == << Clause(0, << Lit_PX, Lit_Qfab >>), Clause(1, << Lit_nPa >>) >>

Example(cl, rp, bp, bi) ==
    [clauses |-> cl, resolvable_pairs |-> rp, best_pair |-> bp, best_pair_index |-> bi]

LoadedPool ==
    { \* the end-to-end example: one pair, marked inline as the best
      Example(TwoNodes, << Pair(0, Some(0), 1, Some(0)) >>,
              Some(Pair(0, Some(0), 1, Some(0))), None),
      \* the best pair given by its index
      Example(ThreeNodes, << Pair(0, Some(0), 1, Some(0)), Pair(0, Some(1), 1, Some(0)) >>,
              None, Some(1)),
      \* best_pair_index out of range
      Example(ThreeNodes, << Pair(0, Some(1), 1, Some(0)) >>, None, Some(1)),
      \* no best pair at all
      Example(TwoNodes, << Pair(1, Some(0), 0, Some(0)) >>, None, None),
      \* every pair malformed
      Example(TwoNodes, << Pair(0, None, 1, Some(0)) >>, None, Some(0)),
      \* no clauses
      Example(<< >>, << Pair(0, Some(0), 1, Some(0)) >>, None, Some(0)) }

PredicateListPool == { << >>, << << "Q" >>, << "P" >> >> }

-----------------------------------------------------------------------------
(* A dataset from its construction on: Init is the state __init__ leaves,  *)
(* Get is one call of get(idx). torch_geometric's Dataset.__getitem__      *)
(* calls get with an index of range(len()).                                *)
InitDataset ==
    /\ pc = "dataset"
    /\ \E loaded \in SeqsUpTo(LoadedPool, MaxExamples) :
       \E predicate_list \in PredicateListPool :
          /\ examples = ConstructedExamples(loaded)
          /\ predicate_to_idx = BuildVocabulary(loaded, predicate_list)
    /\ max_args = DefaultMaxArgs
    /\ _cache_enabled \in BOOLEAN
    /\ _cache = << >>
    /\ requested = {} /\ idx = None /\ passed = None /\ result = NotCalled
    /\ EmbedIdle /\ GraphIdle /\ EvalIdle

Self == [examples |-> examples, predicate_to_idx |-> predicate_to_idx,
         max_args |-> max_args, _cache_enabled |-> _cache_enabled, _cache |-> _cache]

Get ==
    /\ pc = "dataset"
    /\ \E i \in 0..(Len(examples) - 1) :
          LET r == get(Self, i)
          IN  /\ idx' = Some(i)
              /\ requested' = requested \cup {i}
              /\ _cache' = r._cache
              /\ passed' = r.passed
              /\ result' = r.result
    /\ UNCHANGED <<pc, examples, predicate_to_idx, _cache_enabled, max_args,
                   literal, feat, graphVars, evalVars>>

NextDataset == Get

SpecDataset == InitDataset /\ [][NextDataset]_vars

-----------------------------------------------------------------------------
(* Properties of the dataset. *)

\* what a dataset without a cache returns for index i
Rebuilt(i) == build_graph_from_example(examples[i + 1], predicate_to_idx, max_args)

\* C1: every example the dataset exposes has a resolvable best pair, and
\* get never hands an example without one to the graph builder.
C1_FilteredBeforeBuild ==
    passed # None => _extract_best_pair(passed[1]) # None

C7_State ==
    /\ idx # None => result = Rebuilt(idx[1])
    /\ DOMAIN _cache \subseteq requested
    /\ \A i \in DOMAIN _cache : _cache[i] = Rebuilt(i)
    /\ ~_cache_enabled => DOMAIN _cache = {}

C7_Step ==
    /\ examples' = examples
    /\ predicate_to_idx' = predicate_to_idx
    /\ \A i \in DOMAIN _cache : i \in DOMAIN _cache' /\ _cache'[i] = _cache[i]

\* C7: the cache is pure memoization: every get(i) returns what a dataset
\* without a cache returns, the cache holds entries only for requested
\* indices, each the graph builder's result for that example, a stored
\* entry never changes, and get leaves the examples and the vocabulary alone.
C7_PureMemoization == [] C7_State /\ [][C7_Step]_vars

\* a second get of an index, answered from the cache, with another index cached too
C7_Witness ==
    /\ _cache_enabled
    /\ idx = Some(0)
    /\ passed = None
    /\ DOMAIN _cache = {0, 1}
    /\ _cache[0] # _cache[1]
    /\ result = _cache[0]
    /\ result.kind = "graph"

-----------------------------------------------------------------------------
(* 5) Training helpers: evaluate. *)

(* A batch as evaluate sees it: y, the labels of its edges, and pred, the   *)
(* model's argmax for the same edges (whatever the weights make it).        *)
BatchPool ==
    UNION { [ pred : [1..n -> {0, 1}], y : [1..n -> {0, 1}] ] : n \in 0..MaxBatchEdges }

\* (pred == batch.y).sum().item()
Agreeing(b) == Cardinality({k \in 1..Len(b.y) : b.pred[k] = b.y[k]})

\* the counters after one iteration of the loop on batch b
evaluate_step(c, t, b) ==
    IF Len(b.y) = 0 THEN [correct |-> c, total |-> t]            \* continue
    ELSE [correct |-> c + Agreeing(b), total |-> t + Len(b.y)]

\* a plausible slip: the division is not guarded
accuracy_unguarded(c, t) ==
    IF t = 0 THEN Raised ELSE [kind |-> "value", num |-> c, den |-> t]

\* correct / total if total else 0.0, as the fraction num/den
accuracy(c, t) ==
    IF t # 0 THEN [kind |-> "value", num |-> c, den |-> t]
    ELSE [kind |-> "value", num |-> 0, den |-> 1]

(* One call of evaluate: the loader yields loader more batches, each any    *)
(* batch of BatchPool.                                                      *)
InitEval ==
    /\ pc = "eval_loop"
    /\ loader \in 0..MaxBatches
    /\ batch = << >>
    /\ correct = 0 /\ total = 0
    /\ acc = NotCalled
    /\ max_args = DefaultMaxArgs
    /\ predicate_to_idx = << >>
    /\ EmbedIdle /\ GraphIdle /\ DatasetIdle

EvalBatch ==
    /\ pc = "eval_loop"
    /\ loader > 0
    /\ \E b \in BatchPool :
          /\ batch' = Some(b)
          /\ correct' = evaluate_step(correct, total, b).correct
          /\ total' = evaluate_step(correct, total, b).total
    /\ loader' = loader - 1
    /\ UNCHANGED <<pc, acc, max_args, predicate_to_idx, literal, feat, graphVars, cacheVars>>

EvalReturn ==
    /\ pc = "eval_loop"
    /\ loader = 0
    /\ acc' = accuracy(correct, total)
    /\ pc' = "eval_done"
    /\ UNCHANGED <<loader, batch, correct, total, max_args, predicate_to_idx,
                   literal, feat, graphVars, cacheVars>>

NextEval == EvalBatch \/ EvalReturn

SpecEval == InitEval /\ [][NextEval]_vars

-----------------------------------------------------------------------------
(* Properties of evaluate. *)

C6_State ==
    /\ 0 <= correct /\ correct <= total
    /\ pc = "eval_done" =>
          /\ acc.kind = "value"
          /\ acc.den > 0
          /\ 0 <= acc.num /\ acc.num <= acc.den
          /\ total = 0 => acc.num = 0
          /\ total # 0 => acc.num = correct /\ acc.den = total

C6_Step ==
    (loader' # loader /\ Len(batch'[1].y) = 0)
        => correct' = correct /\ total' = total

\* C6: the accuracy evaluate returns lies in [0,1]; a batch without labels
\* changes neither correct nor total; with no labeled batch the result is
\* 0.0 and nothing is divided by zero.
C6_AccuracyInRange == [] C6_State /\ [][C6_Step]_vars

\* an empty batch after a non-empty, partly correct one, and the value returned
C6_Witness ==
    /\ pc = "eval_done"
    /\ batch # None /\ Len(batch[1].y) = 0
    /\ total = 2 /\ correct = 1
    /\ acc = [kind |-> "value", num |-> 1, den |-> 2]

-----------------------------------------------------------------------------
(* Properties of the encoder. *)

Embedded == pc = "embedded"
Parsed   == parse_literal(literal)
Stripped == Strip(literal)
Negated  == Stripped # << >> /\ Stripped[1] \in Negations
Kept     == Min(max_args, Len(Parsed.args))

\* C5: the vector has length 2 + max_args; slot 0 is the sign bit; the first
\* k = min(max_args, argument count) argument slots hold the type codes of
\* the first k arguments in order, the others -1; the length is 5 for
\* max_args = 3.
C5_FeatureLayout ==
    Embedded =>
        /\ Len(feat[1]) = 2 + max_args
        /\ max_args = 3 => Len(feat[1]) = 5
        /\ feat[1][1] = IF Negated THEN 1 ELSE 0
        /\ \A k \in 1..Kept :
              /\ feat[1][2 + k] = ArgType(Parsed.args[k])
              /\ feat[1][2 + k] \in {0, 1, 2}
        /\ \A k \in (Kept + 1)..max_args : feat[1][2 + k] = -1

\* a negated literal with one argument, padded to three slots
C5_Witness ==
    /\ Embedded
    /\ literal = << "~", "P", "(", "a", ")" >>
    /\ max_args = 3
    /\ feat[1] = << 1, 1, 1, -1, -1 >>

\* a literal with more arguments than slots
C5_WitnessTruncated ==
    /\ Embedded
    /\ Len(Parsed.args) = 3
    /\ max_args = 2
    /\ Len(feat[1]) = 4

====
